---------------------------- MODULE Spec2Model ----------------------------
(***************************************************************************)
(* A model of the recipe application's stores.                             *)
(*                                                                         *)
(*  - FolderProvider (FolderContext): folders and bookmarks of the users,  *)
(*    kept in React state, mirrored to localStorage by an effect.          *)
(*  - RecipeProvider (RecipeContext): recipes and reviews, the review      *)
(*    aggregates, addRecipe with its simulated latency.                    *)
(*  - the pure text functions: getLevenshteinDistance, isFuzzyMatch,       *)
(*    searchRecipesWithFuzzy, findSimilarTerms, processRecipes.            *)
(*  - AuthProvider (AuthContext): the session and the user collection,     *)
(*    login, register and updateUser with their simulated latency.         *)
(*  - SearchPage: the query function that filters the search results.      *)
(*                                                                         *)
(* React state is modelled by two copies of every collection: the state    *)
(* itself, to which every queued updater (setX(prev => ...)) is applied    *)
(* in call order, and the value the last render handed to the closures of  *)
(* the handlers (seen...).  A handler reads the closure's values and       *)
(* queues updaters; Render (the commit) refreshes the closures and runs    *)
(* the effects.                                                            *)
(***************************************************************************)
EXTENDS Integers, Sequences, FiniteSets, TLC

VARIABLES
  \* ---- FolderProvider
  user,           \* the user AuthContext currently holds ("none" = null)
  folders,        \* useState<Folder[]>, all queued updaters applied
  bookmarks,      \* useState<Bookmark[]>, all queued updaters applied
  seenUser,       \* user as of the last render (what the handlers close over)
  seenFolders,    \* folders as of the last render
  seenBookmarks,  \* bookmarks as of the last render
  dirty,          \* a state update is queued: a render is due
  storage,        \* localStorage: savory_folders / savory_bookmarks
  quota,          \* localStorage is full: setItem throws QuotaExceededError
  clock,          \* Date.now()
  calls,          \* handler calls so far
  lastOp,         \* history: the last store operation that was called
  \* ---- RecipeProvider
  recipes,        \* useState<Recipe[]>, all queued updaters applied
  reviews,        \* useState<Review[]>, all queued updaters applied
  seenRecipes,    \* recipes as of the last render
  seenReviews,    \* reviews as of the last render
  inFlight,       \* addRecipe calls waiting in their setTimeout, oldest first
  recipeStorage,  \* localStorage: savory_recipes
  isLoading,      \* useState(true)
  listed,         \* the last list a getter of the context value returned
  \* ---- searchRecipesWithFuzzy on a collection
  collection,     \* recipesToSearch
  query,          \* the query string
  found,          \* the result, once the search has run
  similar,        \* the result of findSimilarTerms, once it has run
  \* ---- isFuzzyMatch on two strings
  source,
  target,
  tolerance,
  matched,        \* the result, once the match has run
  \* ---- getLevenshteinDistance on three strings
  strA,
  strB,
  strC,
  distances,      \* the distances between them, once they were computed
  \* ---- processRecipes on one entry of the data
  rawRecipe,      \* the entry as the data holds it
  ingested,       \* the entry processed once and twice, once that was done
  \* ---- AuthProvider
  currentUser,    \* useState<User | null> (user), all queued updates applied
  users,          \* useState<User[]>, all queued updates applied
  seenCurrentUser,\* user as of the last render
  seenUsers,      \* users as of the last render
  pending,        \* login / register / updateUser calls in their setTimeout
  userStorage,    \* localStorage: savory_user
  usersStorage,   \* localStorage: savory_users
  authLog,        \* history: the last call that returned, the session closed
  \* ---- SearchPage
  selectedCategories, \* useState<string[]>
  selectedTimes,      \* useState<string[]>
  searchResults       \* the data of the search query, once queryFn has run

fvars == <<user, folders, bookmarks, seenUser, seenFolders, seenBookmarks,
           dirty, storage, calls, lastOp>>

rvars == <<recipes, reviews, seenRecipes, seenReviews, inFlight, recipeStorage,
           isLoading, listed>>

svars == <<collection, query, found, similar>>

zvars == <<source, target, tolerance, matched>>

dvars == <<strA, strB, strC, distances>>

tvars == <<rawRecipe, ingested>>

avars == <<currentUser, users, seenCurrentUser, seenUsers, pending, userStorage,
           usersStorage, authLog>>

pvars == <<selectedCategories, selectedTimes, searchResults>>

vars == <<fvars, rvars, svars, zvars, dvars, tvars, avars, pvars, clock, quota>>

\* what the actions of one component leave alone
FolderFrame == UNCHANGED <<rvars, svars, zvars, dvars, tvars, avars, pvars, quota>>
RecipeFrame == UNCHANGED <<fvars, svars, zvars, dvars, tvars, avars, pvars, quota>>
SearchFrame == UNCHANGED <<fvars, rvars, zvars, dvars, tvars, avars, pvars, clock, quota>>
MatchFrame == UNCHANGED <<fvars, rvars, svars, dvars, tvars, avars, pvars, clock, quota>>
DistanceFrame == UNCHANGED <<fvars, rvars, svars, zvars, tvars, avars, pvars, clock, quota>>
IngestFrame == UNCHANGED <<fvars, rvars, svars, zvars, dvars, avars, pvars, clock, quota>>
AuthFrame == UNCHANGED <<fvars, rvars, svars, zvars, dvars, tvars, pvars, quota>>
PageFrame == UNCHANGED <<fvars, rvars, zvars, dvars, tvars, avars, clock, quota>>

-----------------------------------------------------------------------------
(* Bounds *)
MaxClock == 2
MaxFolders == 2
MaxBookmarks == 2
MaxCalls == 3
MaxRecipes == 3
MaxReviews == 3
MaxInFlight == 2

(* Input domains *)
NoUser == "none"
Users == {"u1", "u2"}
SessionUsers == {"u1"}
RecipeIds == {1, 2}
FolderNames == {"A"}
BookmarkRatings == {2, 4}
DefaultColor == "#ff9f7f"
DefaultIcon == "bookmark"
FolderIdArgs == 1 .. (MaxClock + 1)
BookmarkIdArgs == 1 .. MaxClock
\* a localStorage entry: getItem returns null when the key was never set
NoItem == [set |-> FALSE, val |-> << >>]
Item(v) == [set |-> TRUE, val |-> v]
\* an entry whose text JSON.parse throws on
Malformed == [set |-> TRUE, text |-> "{"]
Parses(item) == "val" \in DOMAIN item

-----------------------------------------------------------------------------
(* Array helpers *)
MapSeq(s, F(_)) == [i \in 1 .. Len(s) |-> F(s[i])]

Indices(s, P(_)) == {i \in 1 .. Len(s) : P(s[i])}

Min(S) == CHOOSE x \in S : \A y \in S : x <= y

\* Array.prototype.find: the first element that satisfies P, as a sequence of
\* one element; the empty sequence stands for undefined
Find(s, P(_)) ==
  IF Indices(s, P) = {} THEN << >> ELSE << s[Min(Indices(s, P))] >>

\* { ...rec, ...data }
Merge(rec, data) ==
  [k \in DOMAIN rec |-> IF k \in DOMAIN data THEN data[k] ELSE rec[k]]

Range(s) == {s[i] : i \in 1 .. Len(s)}

\* mutant: slice without the end index
Take_NoLimit(s, n) == s

\* Array.prototype.slice(0, n)
Take(s, n) == SubSeq(s, 1, IF Len(s) < n THEN Len(s) ELSE n)

-----------------------------------------------------------------------------
(* Numbers: AggregatedRating is a quotient, kept as a reduced fraction *)
RECURSIVE GCD(_, _)
GCD(a, b) == IF b = 0 THEN a ELSE GCD(b, a % b)

Quot(n, d) == [num |-> n \div GCD(n, d), den |-> d \div GCD(n, d)]

Max(S) == CHOOSE x \in S : \A y \in S : x >= y

\* the text functions, not called
SIdle ==
  /\ collection = << >>
  /\ query = << >>
  /\ found = [done |-> FALSE, val |-> << >>]
  /\ similar = [done |-> FALSE, val |-> << >>]

NoDistances == [done |-> FALSE, aa |-> 0, ab |-> 0, ba |-> 0, ac |-> 0, cb |-> 0]

DIdle ==
  /\ strA = << >>
  /\ strB = << >>
  /\ strC = << >>
  /\ distances = NoDistances

MIdle ==
  /\ source = << >>
  /\ target = << >>
  /\ tolerance = [num |-> 1, den |-> 5]
  /\ matched = [done |-> FALSE, val |-> FALSE]

NotIngested == [done |-> FALSE, once |-> << >>, twice |-> << >>]

TIdle ==
  /\ rawRecipe = [RecipeId |-> 0]
  /\ ingested = NotIngested

NoAuthCall == [op |-> "none", ok |-> FALSE, closed |-> FALSE, started |-> 0]

AIdle ==
  /\ currentUser = << >>
  /\ users = << >>
  /\ seenCurrentUser = << >>
  /\ seenUsers = << >>
  /\ pending = << >>
  /\ userStorage = NoItem
  /\ usersStorage = NoItem
  /\ authLog = NoAuthCall

PIdle ==
  /\ selectedCategories = << >>
  /\ selectedTimes = << >>
  /\ searchResults = [done |-> FALSE, val |-> << >>]

ZIdle == MIdle /\ DIdle /\ TIdle /\ AIdle /\ PIdle

\* the provider before anything was loaded
NoList == [op |-> "none", count |-> 0, val |-> << >>]

RIdle ==
  /\ recipes = << >>
  /\ reviews = << >>
  /\ seenRecipes = << >>
  /\ seenReviews = << >>
  /\ inFlight = << >>
  /\ recipeStorage = NoItem
  /\ isLoading = TRUE
  /\ listed = NoList

-----------------------------------------------------------------------------
(* Strings: a string is a sequence of characters *)

\* String.prototype.toLowerCase
LowerChar(c) == IF c = "A" THEN "a" ELSE c

toLowerCase(str) == MapSeq(str, LowerChar)

IsSpace(c) == c = " "

\* String.prototype.trim
RECURSIVE trimStart(_)
trimStart(str) ==
  IF str # << >> /\ IsSpace(Head(str)) THEN trimStart(Tail(str)) ELSE str

RECURSIVE trimEnd(_)
trimEnd(str) ==
  IF str # << >> /\ IsSpace(str[Len(str)])
  THEN trimEnd(SubSeq(str, 1, Len(str) - 1)) ELSE str

trim(str) == trimEnd(trimStart(str))

\* String.prototype.includes
includes(str, sub) ==
  \E i \in 0 .. (Len(str) - Len(sub)) : SubSeq(str, i + 1, i + Len(sub)) = sub

\* String.prototype.split(/\s+/): the pieces between the runs of whitespace,
\* an empty piece before a leading and after a trailing run
RECURSIVE splitFrom(_, _)
splitFrom(str, piece) ==
  IF str = << >> THEN << piece >>
  ELSE IF IsSpace(Head(str))
       THEN << piece >> \o splitFrom(trimStart(str), << >>)
       ELSE splitFrom(Tail(str), Append(piece, Head(str)))

split(str) == splitFrom(str, << >>)

\* String.prototype.split(sep) for a separator of one character
RECURSIVE splitOnFrom(_, _, _)
splitOnFrom(str, sep, piece) ==
  IF str = << >> THEN << piece >>
  ELSE IF Head(str) = sep
       THEN << piece >> \o splitOnFrom(Tail(str), sep, << >>)
       ELSE splitOnFrom(Tail(str), sep, Append(piece, Head(str)))

splitOn(str, sep) == splitOnFrom(str, sep, << >>)

-----------------------------------------------------------------------------
(* FolderProvider *)

NewFolder(name, uid, color, icon, now) ==
  [id |-> now, name |-> name, userId |-> uid, color |-> color, icon |-> icon,
   createdAt |-> now]

NewBookmark(recipeId, uid, folderId, rating, now) ==
  [id |-> now, recipeId |-> recipeId, userId |-> uid, folderId |-> folderId,
   rating |-> rating, createdAt |-> now]

DefaultFolders(uid, now) ==
  << [id |-> now, name |-> "Favorites", userId |-> uid, color |-> "#ff9f7f",
      icon |-> "heart", createdAt |-> now],
     [id |-> now + 1, name |-> "Try Later", userId |-> uid, color |-> "#7fb1ff",
      icon |-> "clock", createdAt |-> now] >>

\* the updaters the handlers queue
FolderUpdated(prev, folderId, data) ==
  LET upd(folder) == IF folder.id = folderId THEN Merge(folder, data) ELSE folder
  IN  MapSeq(prev, upd)

FolderRemoved(prev, folderId) ==
  LET keep(folder) == folder.id # folderId IN SelectSeq(prev, keep)

\* mutant: deleteFolder without the cascade
BookmarksOfFolderRemoved_NoCascade(prev, folderId) == prev

BookmarksOfFolderRemoved(prev, folderId) ==
  LET keep(bookmark) == bookmark.folderId # folderId IN SelectSeq(prev, keep)

BookmarkRemoved(prev, bookmarkId) ==
  LET keep(bookmark) == bookmark.id # bookmarkId IN SelectSeq(prev, keep)

BookmarkUpdated(prev, bookmarkId, data) ==
  LET upd(bookmark) ==
        IF bookmark.id = bookmarkId THEN Merge(bookmark, data) ELSE bookmark
  IN  MapSeq(prev, upd)

\* the readers, evaluated on the values of a render
getBookmarksByFolder(u, bms, folderId) ==
  IF u = NoUser THEN << >>
  ELSE LET p(bookmark) == bookmark.userId = u /\ bookmark.folderId = folderId
       IN  SelectSeq(bms, p)

getBookmarkByRecipeId(u, bms, recipeId) ==
  IF u = NoUser THEN << >>
  ELSE LET p(bookmark) == bookmark.userId = u /\ bookmark.recipeId = recipeId
       IN  Find(bms, p)

getUserFolders(u, fs) ==
  IF u = NoUser THEN << >>
  ELSE LET p(folder) == folder.userId = u IN SelectSeq(fs, p)

getFolderById(fs, folderId) ==
  LET p(folder) == folder.id = folderId IN Find(fs, p)

FInit ==
  /\ RIdle /\ SIdle /\ ZIdle
  /\ user = NoUser
  /\ folders = << >>
  /\ bookmarks = << >>
  /\ seenUser = NoUser
  /\ seenFolders = << >>
  /\ seenBookmarks = << >>
  /\ dirty = FALSE
  /\ storage = [folders |-> NoItem, bookmarks |-> NoItem]
  /\ quota = FALSE
  /\ clock = 1
  /\ calls = 0
  /\ lastOp = [op |-> "init", rendered |-> TRUE]

\* a handler of the provider is called from the closures of the last render
Called == calls < MaxCalls /\ calls' = calls + 1

\* AuthContext hands a user to the provider (login / register) or takes it away
Login(u) ==
  /\ user = NoUser
  /\ user' = u
  /\ dirty' = TRUE
  /\ lastOp' = [rendered |-> FALSE, op |-> "login"]
  /\ UNCHANGED <<folders, bookmarks, seenUser, seenFolders, seenBookmarks,
                 storage, clock, calls>>
  /\ FolderFrame

Logout ==
  /\ user # NoUser
  /\ user' = NoUser
  /\ dirty' = TRUE
  /\ lastOp' = [rendered |-> FALSE, op |-> "logout"]
  /\ UNCHANGED <<folders, bookmarks, seenUser, seenFolders, seenBookmarks,
                 storage, clock, calls>>
  /\ FolderFrame

Tick ==
  /\ clock < MaxClock
  /\ clock' = clock + 1
  /\ UNCHANGED <<user, folders, bookmarks, seenUser, seenFolders, seenBookmarks,
                 dirty, storage, calls, lastOp>>
  /\ FolderFrame

createFolder(name, color, icon) ==
  /\ Called
  /\ seenUser # NoUser
  /\ Len(folders) < MaxFolders
  /\ folders' = Append(folders, NewFolder(name, seenUser, color, icon, clock))
  /\ dirty' = TRUE
  /\ lastOp' = [rendered |-> FALSE, op |-> "createFolder"]
  /\ UNCHANGED <<user, bookmarks, seenUser, seenFolders, seenBookmarks, storage, clock>>
  /\ FolderFrame

updateFolder(folderId, data) ==
  /\ Called
  /\ seenUser # NoUser
  /\ folders' = FolderUpdated(folders, folderId, data)
  /\ dirty' = TRUE
  /\ lastOp' = [rendered |-> FALSE, op |-> "updateFolder", folderId |-> folderId]
  /\ UNCHANGED <<user, bookmarks, seenUser, seenFolders, seenBookmarks, storage, clock>>
  /\ FolderFrame

deleteFolder(folderId) ==
  /\ Called
  /\ seenUser # NoUser
  /\ folders' = FolderRemoved(folders, folderId)
  /\ bookmarks' = BookmarksOfFolderRemoved(bookmarks, folderId)
  /\ dirty' = TRUE
  /\ lastOp' = [rendered |-> FALSE, op |-> "deleteFolder", folderId |-> folderId,
                removedFolders |-> Len(folders) - Len(folders'),
                removedBookmarks |-> Len(bookmarks) - Len(bookmarks')]
  /\ UNCHANGED <<user, seenUser, seenFolders, seenBookmarks, storage, clock>>
  /\ FolderFrame

updateBookmark(bookmarkId, data) ==
  /\ Called
  /\ seenUser # NoUser
  /\ bookmarks' = BookmarkUpdated(bookmarks, bookmarkId, data)
  /\ dirty' = TRUE
  /\ lastOp' = [rendered |-> FALSE, op |-> "updateBookmark", bookmarkId |-> bookmarkId]
  /\ UNCHANGED <<user, folders, seenUser, seenFolders, seenBookmarks, storage, clock>>
  /\ FolderFrame

removeBookmark(bookmarkId) ==
  /\ Called
  /\ seenUser # NoUser
  /\ bookmarks' = BookmarkRemoved(bookmarks, bookmarkId)
  /\ dirty' = TRUE
  /\ lastOp' = [rendered |-> FALSE, op |-> "removeBookmark", bookmarkId |-> bookmarkId]
  /\ UNCHANGED <<user, folders, seenUser, seenFolders, seenBookmarks, storage, clock>>
  /\ FolderFrame

addBookmark(recipeId, folderId, rating) ==
  /\ Called
  /\ seenUser # NoUser
  /\ LET existingBookmark == getBookmarkByRecipeId(seenUser, seenBookmarks, recipeId)
     IN  IF existingBookmark # << >>
         THEN bookmarks' = BookmarkUpdated(bookmarks, existingBookmark[1].id,
                              [folderId |-> folderId, rating |-> rating])
         ELSE /\ Len(bookmarks) < MaxBookmarks
              /\ bookmarks' = Append(bookmarks,
                     NewBookmark(recipeId, seenUser, folderId, rating, clock))
  /\ dirty' = TRUE
  /\ lastOp' = [rendered |-> FALSE, op |-> "addBookmark", recipeId |-> recipeId,
                folderId |-> folderId, rating |-> rating, userId |-> seenUser]
  /\ UNCHANGED <<user, folders, seenUser, seenFolders, seenBookmarks, storage, clock>>
  /\ FolderFrame

\* The commit of a render: the closures see the current state, then the
\* effects run in declaration order (load effect [user], persist effect
\* [folders, bookmarks, user]).
LoadRuns == user # seenUser /\ user # NoUser

\* mutant: the persist effect without its user guard
PersistRuns_Always == TRUE

PersistRuns == user # NoUser

\* the load effect leaves its try block at the folders: JSON.parse throws on
\* the stored text, or setItem throws while the default folders are stored
FoldersThrow ==
  \/ storage.folders.set /\ ~Parses(storage.folders)
  \/ ~storage.folders.set /\ quota

LoadedFolders ==
  IF storage.folders.set
  THEN IF Parses(storage.folders) THEN storage.folders.val ELSE folders
  ELSE DefaultFolders(user, clock)

LoadedBookmarks ==
  IF ~FoldersThrow /\ storage.bookmarks.set /\ Parses(storage.bookmarks)
  THEN storage.bookmarks.val ELSE bookmarks

StorageAfterLoad ==
  IF ~LoadRuns THEN storage
  ELSE [folders   |-> IF storage.folders.set \/ quota THEN storage.folders
                      ELSE Item(DefaultFolders(user, clock)),
        bookmarks |-> IF storage.bookmarks.set \/ quota \/ FoldersThrow
                      THEN storage.bookmarks
                      ELSE Item(<< >>)]

\* the persist effect has no try block: when setItem throws, the error leaves
\* the provider and nothing is written
Render ==
  /\ dirty
  /\ seenUser' = user
  /\ seenFolders' = folders
  /\ seenBookmarks' = bookmarks
  /\ folders' = IF LoadRuns THEN LoadedFolders ELSE folders
  /\ bookmarks' = IF LoadRuns THEN LoadedBookmarks ELSE bookmarks
  /\ storage' = IF PersistRuns /\ ~quota
                THEN [folders |-> Item(folders), bookmarks |-> Item(bookmarks)]
                ELSE StorageAfterLoad
  /\ dirty' = LoadRuns
  /\ lastOp' = [lastOp EXCEPT !.rendered = TRUE]
  /\ UNCHANGED <<user, clock, calls>>
  /\ FolderFrame

FolderData ==
  {[name |-> "B"], [color |-> "#7fb1ff", icon |-> "heart"]}

BookmarkData ==
  {[folderId |-> f, rating |-> 4] : f \in FolderIdArgs} \cup {[rating |-> 2]}

\* one session: the first login of a browser whose storage is still empty
FirstLogin(u) == ~storage.folders.set /\ Login(u)

FNext ==
  \/ \E u \in SessionUsers : FirstLogin(u)
  \/ Logout
  \/ Tick
  \/ Render
  \/ \E n \in FolderNames : createFolder(n, DefaultColor, DefaultIcon)
  \/ \E f \in FolderIdArgs, d \in FolderData : updateFolder(f, d)
  \/ \E f \in FolderIdArgs : deleteFolder(f)
  \/ \E r \in RecipeIds, f \in FolderIdArgs, rt \in BookmarkRatings :
        addBookmark(r, f, rt)
  \/ \E b \in BookmarkIdArgs, d \in BookmarkData : updateBookmark(b, d)
  \/ \E b \in BookmarkIdArgs : removeBookmark(b)

SpecFolder == FInit /\ [][FNext]_vars

\* every handler starts with `if (!user) return;`: a call from a render that has
\* no user returns at once
ReturnsEarly ==
  /\ Called
  /\ seenUser = NoUser
  /\ lastOp' = [rendered |-> FALSE, op |-> "return"]
  /\ UNCHANGED <<user, folders, bookmarks, seenUser, seenFolders, seenBookmarks,
                 dirty, storage, clock>>
  /\ FolderFrame

\* A session in a browser another user has used before: the documents of
\* localStorage are shared by all users of the browser.
EarlierUser == "u2"
EarlierFolders == DefaultFolders(EarlierUser, 0)
EarlierBookmarks == << NewBookmark(1, EarlierUser, 0, 4, 0) >>
EarlierStorage ==
  { [folders |-> NoItem, bookmarks |-> NoItem],
    [folders |-> Item(EarlierFolders), bookmarks |-> Item(<< >>)],
    [folders |-> Item(EarlierFolders), bookmarks |-> Item(EarlierBookmarks)] }

UFolderIdArgs == 0 .. MaxClock
UBookmarkIdArgs == 0 .. MaxClock

UNext ==
  \/ \E u \in SessionUsers : Login(u)
  \/ Logout
  \/ Tick
  \/ Render
  \/ createFolder("A", DefaultColor, DefaultIcon)
  \/ \E f \in UFolderIdArgs : updateFolder(f, [name |-> "B"])
  \/ \E f \in UFolderIdArgs : deleteFolder(f)
  \/ \E f \in UFolderIdArgs : addBookmark(1, f, 4)
  \/ \E b \in UBookmarkIdArgs : updateBookmark(b, [rating |-> 2])
  \/ \E b \in UBookmarkIdArgs : removeBookmark(b)
  \/ ReturnsEarly

\* localStorage runs full (other pages of the origin write to it too)
StorageFills ==
  /\ ~quota
  /\ quota' = TRUE
  /\ UNCHANGED <<fvars, rvars, svars, zvars, dvars, tvars, avars, pvars, clock>>

QNext ==
  \/ \E u \in SessionUsers : FirstLogin(u)
  \/ StorageFills
  \/ Tick
  \/ Render
  \/ createFolder("A", DefaultColor, DefaultIcon)
  \/ \E f \in FolderIdArgs : updateFolder(f, [name |-> "B"])
  \/ \E f \in FolderIdArgs : deleteFolder(f)
  \/ \E f \in FolderIdArgs : addBookmark(1, f, 4)
  \/ \E b \in BookmarkIdArgs : updateBookmark(b, [rating |-> 2])
  \/ \E b \in BookmarkIdArgs : removeBookmark(b)

QuotaInit == FInit

SpecQuota == QuotaInit /\ [][QNext]_vars

UsersInit ==
  /\ RIdle /\ SIdle /\ ZIdle
  /\ user = NoUser
  /\ folders = << >>
  /\ bookmarks = << >>
  /\ seenUser = NoUser
  /\ seenFolders = << >>
  /\ seenBookmarks = << >>
  /\ dirty = FALSE
  /\ storage \in EarlierStorage
  /\ quota = FALSE
  /\ clock = 1
  /\ calls = 0
  /\ lastOp = [op |-> "init", rendered |-> TRUE]

SpecUsers == UsersInit /\ [][UNext]_vars

-----------------------------------------------------------------------------
(* RecipeProvider *)

ReviewRatings == {2, 4}
RecipeNames == { <<"x">>, <<"y">> }

ReviewsOf(rvs, recipeId) ==
  LET p(r) == r.RecipeId = recipeId IN SelectSeq(rvs, p)

RECURSIVE SumRatings(_)
SumRatings(rvs) ==
  IF rvs = << >> THEN 0 ELSE Head(rvs).Rating + SumRatings(Tail(rvs))

\* mutant: a recipe without reviews gets the rating 0
RecomputeAggregates_Zeroed(prevRecipes, reviewsData) ==
  LET upd(recipe) ==
        LET recipeReviews == ReviewsOf(reviewsData, recipe.RecipeId)
            reviewCount == Len(recipeReviews)
            aggregatedRating ==
              IF reviewCount > 0
              THEN Quot(SumRatings(recipeReviews), reviewCount)
              ELSE Quot(0, 1)
        IN  [recipe EXCEPT !.AggregatedRating = aggregatedRating,
                           !.ReviewCount = reviewCount]
  IN  MapSeq(prevRecipes, upd)

\* loadData: the aggregates of every recipe from the loaded reviews
RecomputeAggregates(prevRecipes, reviewsData) ==
  LET upd(recipe) ==
        LET recipeReviews == ReviewsOf(reviewsData, recipe.RecipeId)
            reviewCount == Len(recipeReviews)
            aggregatedRating ==
              IF reviewCount > 0
              THEN Quot(SumRatings(recipeReviews), reviewCount)
              ELSE recipe.AggregatedRating
        IN  [recipe EXCEPT !.AggregatedRating = aggregatedRating,
                           !.ReviewCount = reviewCount]
  IN  MapSeq(prevRecipes, upd)

\* the bundled data sets (data/recipes.json, data/reviews.json)
SeedRecipe(id, name, rating, count) ==
  [RecipeId |-> id, Name |-> name, AggregatedRating |-> rating,
   ReviewCount |-> count]

SeedReview(reviewId, recipeId, rating) ==
  [ReviewId |-> reviewId, RecipeId |-> recipeId, Rating |-> rating]

SeedRecipeSets ==
  { << SeedRecipe(1, <<"s", "1">>, Quot(9, 2), 7) >>,
    << SeedRecipe(3, <<"s", "3">>, Quot(7, 2), 3),
       SeedRecipe(1, <<"s", "1">>, Quot(9, 2), 7) >> }

SeedReviewSets ==
  { << SeedReview(0, 1, 4) >>,
    << SeedReview(0, 1, 5), SeedReview(0, 1, 4) >> }

\* Number(x) || 0 of a field that may be missing
NumberOr0(recipe, field) == IF field \in DOMAIN recipe THEN recipe[field] ELSE 0

\* the characters of the model outside the class [\w\s,.-]
OtherChars == {"!", ";", "[", "]"}

replaceOthers(str) == MapSeq(str, LAMBDA c : IF c \in OtherChars THEN " " ELSE c)

\* replace(/\s+/g, ' '): every run of whitespace becomes one space
RECURSIVE collapseSpaces(_)
collapseSpaces(str) ==
  IF str = << >> THEN << >>
  ELSE IF IsSpace(Head(str))
       THEN <<" ">> \o collapseSpaces(trimStart(str))
       ELSE << Head(str) >> \o collapseSpaces(Tail(str))

sanitizeText(text) ==
  IF text = << >> THEN << >>
  ELSE collapseSpaces(replaceOthers(trim(text)))

\* a value of a list field: an array of strings, a string, or (a record with
\* neither field) anything else
Arr(items) == [array |-> items]
Str(chars) == [string |-> chars]
Undefined == [undefined |-> TRUE]

\* JSON.parse of a text that starts with "[": of the texts of the model only
\* the empty array parses, on the others JSON.parse throws
JSONParses(chars) ==
  LET t == trim(chars)
  IN  /\ Len(t) >= 2 /\ t[1] = "[" /\ t[Len(t)] = "]"
      /\ trim(SubSeq(t, 2, Len(t) - 1)) = << >>

\* parseArray, the result being the items of the array
parseArray(value) ==
  IF "array" \in DOMAIN value THEN value.array
  ELSE IF "string" \notin DOMAIN value THEN << >>
  ELSE LET str == value.string
       IN  IF str # << >> /\ Head(str) = "[" /\ includes(str, <<"]">>)
           THEN IF JSONParses(str) THEN << >> ELSE << str >>
           ELSE IF includes(str, <<";">>) THEN MapSeq(splitOn(str, ";"), trim)
           ELSE IF includes(str, <<",">>) THEN MapSeq(splitOn(str, ","), trim)
           ELSE << str >>

\* processRecipes: the fields of every entry coerced; of the five list
\* fields, all passed through parseArray, the model keeps Keywords
processRecipes(data) ==
  LET field(recipe, name) ==
        IF name \in DOMAIN recipe THEN recipe[name] ELSE << >>
      coerce(recipe) ==
        [RecipeId |-> NumberOr0(recipe, "RecipeId"),
         Name |-> sanitizeText(field(recipe, "Name")),
         Description |-> sanitizeText(field(recipe, "Description")),
         Keywords |-> Arr(parseArray(IF "Keywords" \in DOMAIN recipe
                                     THEN recipe.Keywords ELSE Undefined)),
         AggregatedRating |-> IF "AggregatedRating" \in DOMAIN recipe
                              THEN recipe.AggregatedRating ELSE Quot(0, 1),
         ReviewCount |-> NumberOr0(recipe, "ReviewCount")]
  IN  MapSeq(data, coerce)

\* loadData: the stored recipes when the entry parses to a non-empty array,
\* the bundled ones otherwise
InitialData(stored, recipesData) ==
  IF stored.set /\ Parses(stored) /\ Len(stored.val) > 0
  THEN stored.val ELSE recipesData

LoadedRecipes(stored, recipesData, reviewsData) ==
  IF Len(reviewsData) > 0
  THEN RecomputeAggregates(processRecipes(InitialData(stored, recipesData)),
                           reviewsData)
  ELSE processRecipes(InitialData(stored, recipesData))

\* the state loadData leaves, nothing being stored yet
RInit ==
  \E recipesData \in SeedRecipeSets, reviewsData \in SeedReviewSets :
    /\ recipes = LoadedRecipes(NoItem, recipesData, reviewsData)
    /\ reviews = reviewsData
    /\ seenRecipes = recipes
    /\ seenReviews = reviews
    /\ inFlight = << >>
    /\ recipeStorage = Item(processRecipes(recipesData))
    /\ isLoading = FALSE
    /\ listed = NoList

FIdle ==
  /\ user = NoUser
  /\ folders = << >>
  /\ bookmarks = << >>
  /\ seenUser = NoUser
  /\ seenFolders = << >>
  /\ seenBookmarks = << >>
  /\ dirty = FALSE
  /\ storage = [folders |-> NoItem, bookmarks |-> NoItem]
  /\ quota = FALSE
  /\ calls = 0
  /\ lastOp = [op |-> "init", rendered |-> TRUE]

RecipeIdsOf(rs) == MapSeq(rs, LAMBDA r : r.RecipeId)

\* addRecipe up to its await: the call keeps the recipes of its closure
addRecipeStart(name) ==
  /\ Len(recipes) + Len(inFlight) < MaxRecipes
  /\ Len(inFlight) < MaxInFlight
  /\ inFlight' = Append(inFlight, [name |-> name, recipes |-> seenRecipes])
  /\ isLoading' = TRUE
  /\ UNCHANGED <<recipes, reviews, seenRecipes, seenReviews, recipeStorage,
                 listed, clock>>
  /\ RecipeFrame

NewRecipeId(closureRecipes) ==
  LET maxId == IF Len(closureRecipes) > 0
               THEN Max(Range(RecipeIdsOf(closureRecipes))) ELSE 0
  IN  maxId + 1

\* mutant: the new recipe is put before the recipes of the call's closure
prepended_Closure(newRecipe, prevRecipes, call) == <<newRecipe>> \o call.recipes

\* the updater of addRecipe: [newRecipe, ...prevRecipes]
prepended(newRecipe, prevRecipes, call) == <<newRecipe>> \o prevRecipes

\* addRecipe after the timeout: timers of equal delay fire in call order.
\* The updater writes localStorage; when setItem throws, the updater throws
\* where React runs it, outside the try block of addRecipe: no new state, and
\* the call still returns { newId } and clears isLoading.
addRecipeDone ==
  /\ inFlight # << >>
  /\ LET call == Head(inFlight)
         newRecipe == [RecipeId |-> NewRecipeId(call.recipes), Name |-> call.name,
                       Description |-> << >>, Keywords |-> Arr(<< >>),
                       AggregatedRating |-> Quot(0, 1), ReviewCount |-> 0]
         updated == prepended(newRecipe, recipes, call)
     IN  IF quota
         THEN UNCHANGED <<recipes, recipeStorage>>
         ELSE /\ recipes' = updated
              /\ recipeStorage' = Item(updated)
  /\ inFlight' = Tail(inFlight)
  /\ isLoading' = FALSE
  /\ UNCHANGED <<reviews, seenRecipes, seenReviews, listed, clock>>
  /\ RecipeFrame

addReview(recipeId, rating) ==
  /\ Len(reviews) < MaxReviews
  /\ LET newReview == [ReviewId |-> clock, RecipeId |-> recipeId, Rating |-> rating]
         currentReviews == ReviewsOf(seenReviews, recipeId)
         totalRatings == SumRatings(currentReviews) + rating
         newRating == Quot(totalRatings, Len(currentReviews) + 1)
         upd(recipe) ==
           IF recipe.RecipeId = recipeId
           THEN [recipe EXCEPT !.AggregatedRating = newRating,
                               !.ReviewCount = recipe.ReviewCount + 1]
           ELSE recipe
     IN  /\ reviews' = <<newReview>> \o reviews
         /\ recipes' = MapSeq(recipes, upd)
  /\ UNCHANGED <<seenRecipes, seenReviews, inFlight, recipeStorage, isLoading,
                 listed, clock>>
  /\ RecipeFrame

RRender ==
  /\ <<seenRecipes, seenReviews>> # <<recipes, reviews>>
  /\ seenRecipes' = recipes
  /\ seenReviews' = reviews
  /\ UNCHANGED <<recipes, reviews, inFlight, recipeStorage, isLoading, listed,
                 clock>>
  /\ RecipeFrame

RTick ==
  /\ clock < MaxClock
  /\ clock' = clock + 1
  /\ UNCHANGED rvars
  /\ RecipeFrame

RNext ==
  \/ \E n \in RecipeNames : addRecipeStart(n)
  \/ addRecipeDone
  \/ \E i \in 1 .. Len(seenRecipes), rt \in ReviewRatings :
        addReview(seenRecipes[i].RecipeId, rt)
  \/ RRender
  \/ RTick

RecipeInit == RInit /\ FIdle /\ SIdle /\ ZIdle /\ clock = 1

SpecRecipe == RecipeInit /\ [][RNext]_vars

\* the comparator of getTopRatedRecipes is positive: b is sorted before a
RatedAbove(b, a) ==
  b.AggregatedRating.num * a.AggregatedRating.den
    > a.AggregatedRating.num * b.AggregatedRating.den

\* Array.prototype.sort with that comparator; the sort is stable
insertByRating(sorted, recipe) ==
  LET above == {i \in 1 .. Len(sorted) : RatedAbove(recipe, sorted[i])}
      at == IF above = {} THEN Len(sorted) + 1 ELSE Min(above)
  IN  SubSeq(sorted, 1, at - 1) \o <<recipe>> \o SubSeq(sorted, at, Len(sorted))

RECURSIVE sortByRating(_)
sortByRating(rs) ==
  IF rs = << >> THEN << >>
  ELSE insertByRating(sortByRating(SubSeq(rs, 1, Len(rs) - 1)), rs[Len(rs)])

\* mutant: no filter on the rating
isRated_Any(recipe) == TRUE

isRated(recipe) == recipe.AggregatedRating.num > 0

getTopRatedRecipes(rs, count) ==
  Take(sortByRating(SelectSeq(rs, isRated)), count)

getRecentRecipes(rs, count) == Take(rs, count)

ListCounts == 0 .. MaxRecipes

\* a component calls a getter of the context value of the last render; the
\* getters work on copies of the array
getTopRated(count) ==
  /\ listed' = [op |-> "topRated", count |-> count,
                val |-> getTopRatedRecipes(seenRecipes, count)]
  /\ UNCHANGED <<recipes, reviews, seenRecipes, seenReviews, inFlight,
                 recipeStorage, isLoading, clock>>
  /\ RecipeFrame

getRecent(count) ==
  /\ listed' = [op |-> "recent", count |-> count,
                val |-> getRecentRecipes(seenRecipes, count)]
  /\ UNCHANGED <<recipes, reviews, seenRecipes, seenReviews, inFlight,
                 recipeStorage, isLoading, clock>>
  /\ RecipeFrame

LNext ==
  \/ \E n \in RecipeNames : addRecipeStart(n)
  \/ addRecipeDone
  \/ \E i \in 1 .. Len(seenRecipes), rt \in ReviewRatings :
        addReview(seenRecipes[i].RecipeId, rt)
  \/ RRender
  \/ RTick
  \/ \E count \in ListCounts : getTopRated(count)
  \/ \E count \in ListCounts : getRecent(count)

ListsInit == RInit /\ FIdle /\ SIdle /\ ZIdle /\ clock = 1

SpecLists == ListsInit /\ [][LNext]_vars

\* searchRecipes of the context value: an async function without an await, it
\* sets isLoading, computes searchRecipesWithFuzzy(query, recipes) and clears
\* isLoading in its finally block, all in one turn; the state keeps the last
\* update.  Its result is not state.
searchRecipes ==
  /\ isLoading' = FALSE
  /\ UNCHANGED <<recipes, reviews, seenRecipes, seenReviews, inFlight,
                 recipeStorage, listed, clock>>
  /\ RecipeFrame

WNext ==
  \/ \E n \in RecipeNames : addRecipeStart(n)
  \/ addRecipeDone
  \/ searchRecipes
  \/ RRender

LoadingInit == RInit /\ FIdle /\ SIdle /\ ZIdle /\ clock = 1

SpecLoading == LoadingInit /\ [][WNext]_vars

\* processRecipes on one entry, and again on its own result: what loadData
\* does at two successive starts, the result of the first being stored
IngestAlphabet == {"a", " ", "!", ","}

MaxTextLen == 3

RECURSIVE TextsOfLen(_)
TextsOfLen(n) ==
  IF n = 0 THEN { << >> }
  ELSE {Append(t, c) : t \in TextsOfLen(n - 1), c \in IngestAlphabet}

IngestTexts == UNION {TextsOfLen(k) : k \in 0 .. MaxTextLen}

IngestDescriptions == { <<"a">>, <<"a", "!", "a">>, <<" ", "a", " ", " ", "a">> }

IngestLists ==
  { Undefined,
    Arr(<< <<"a", ";", "a">>, <<" ", "a">> >>),
    Str(<< >>),
    Str(<<"a">>),
    Str(<<"a", ";", " ", "a", ",", "a">>),
    Str(<<"a", ",", " ", "a">>),
    Str(<<"[", " ", "]">>),
    Str(<<"[", "a", "]">>) }

TInit ==
  /\ \E name \in IngestTexts, list \in IngestLists :
        \/ rawRecipe = [RecipeId |-> 1, Name |-> name, Keywords |-> list]
        \/ \E description \in IngestDescriptions :
              rawRecipe = [RecipeId |-> 1, Name |-> name,
                           Description |-> description, Keywords |-> list]
  /\ ingested = NotIngested

Ingest ==
  /\ ~ingested.done
  /\ ingested' = [done |-> TRUE,
                  once |-> processRecipes(<< rawRecipe >>),
                  twice |-> processRecipes(processRecipes(<< rawRecipe >>))]
  /\ UNCHANGED rawRecipe
  /\ IngestFrame

TNext == Ingest

IngestInit == TInit /\ MIdle /\ DIdle /\ AIdle /\ PIdle /\ FIdle /\ RIdle /\ SIdle /\ clock = 1

SpecIngest == IngestInit /\ [][TNext]_vars

\* loadData, the mount effect of the provider: it runs once, before anything
\* else has touched the state.  setRecipes(processedRecipes) is queued before
\* the setItem of line 192, whose error the outer catch absorbs.
loadData(recipesData, reviewsData) ==
  /\ isLoading
  /\ recipes = << >> /\ reviews = << >> /\ inFlight = << >>
  /\ IF quota
     THEN /\ recipes' = processRecipes(InitialData(recipeStorage, recipesData))
          /\ UNCHANGED <<reviews, recipeStorage>>
     ELSE /\ recipes' = LoadedRecipes(recipeStorage, recipesData, reviewsData)
          /\ reviews' = reviewsData
          /\ recipeStorage' =
                Item(processRecipes(InitialData(recipeStorage, recipesData)))
  /\ isLoading' = FALSE
  /\ UNCHANGED <<seenRecipes, seenReviews, inFlight, listed, clock>>
  /\ RecipeFrame

\* the documents a browser can hold when the application starts
StoredRecipes ==
  { NoItem, Malformed, Item(<< >>),
    Item(<< SeedRecipe(2, <<"x">>, Quot(0, 1), 0),
            SeedRecipe(1, <<"s", "1">>, Quot(4, 1), 1) >>),
    Item(<< [RecipeId |-> 2, Name |-> <<"x", "!">>] >>) }

StoredFolders == {NoItem, Malformed, Item(EarlierFolders)}

StoredBookmarks == {NoItem, Malformed, Item(EarlierBookmarks)}

\* the application starts: both providers mount, then a user logs in
StartInit ==
  /\ SIdle /\ ZIdle
  /\ recipes = << >>
  /\ reviews = << >>
  /\ seenRecipes = << >>
  /\ seenReviews = << >>
  /\ inFlight = << >>
  /\ isLoading = TRUE
  /\ listed = NoList
  /\ recipeStorage \in StoredRecipes
  /\ user = NoUser
  /\ folders = << >>
  /\ bookmarks = << >>
  /\ seenUser = NoUser
  /\ seenFolders = << >>
  /\ seenBookmarks = << >>
  /\ dirty = FALSE
  /\ storage \in [folders : StoredFolders, bookmarks : StoredBookmarks]
  /\ quota = FALSE
  /\ clock = 1
  /\ calls = 0
  /\ lastOp = [op |-> "init", rendered |-> TRUE]

\* data/reviews.json as loadData may find it: the bundled reviews, or none
LoadReviewSets == SeedReviewSets \cup { << >> }

StartNext ==
  \/ \E recipesData \in SeedRecipeSets, reviewsData \in LoadReviewSets :
        loadData(recipesData, reviewsData)
  \/ RRender
  \/ \E u \in Users : Login(u)
  \/ Render
  \/ Tick

SpecStart == StartInit /\ [][StartNext]_vars

-----------------------------------------------------------------------------
(* AuthProvider: null is the empty sequence, a user a sequence of one record *)

MaxPending == 2
MaxAuthCalls == 4

NewUser(username, email, password, name, now) ==
  [id |-> now, username |-> username, email |-> email, password |-> password,
   name |-> name]

\* data/users.json
BundledUsers == << NewUser("ua", "a", "p", "A", 0) >>

Emails == {"a", "b"}
Usernames == {"ub", "uc"}
Passwords == {"p", "q"}
UserPatches == { [name |-> "N"] }

\* the state after the mount effect and the first commit, no document stored
AInit ==
  /\ currentUser = << >>
  /\ users = BundledUsers
  /\ seenCurrentUser = << >>
  /\ seenUsers = BundledUsers
  /\ pending = << >>
  /\ userStorage = NoItem
  /\ usersStorage = Item(BundledUsers)
  /\ authLog = NoAuthCall

\* an async handler up to its await: the call keeps the user and the users of
\* the render that made the handler
Awaits(call) ==
  /\ Len(pending) < MaxPending
  /\ authLog.started < MaxAuthCalls
  /\ pending' = Append(pending,
                       call @@ [user |-> seenCurrentUser, users |-> seenUsers])
  /\ authLog' = [authLog EXCEPT !.started = @ + 1]
  /\ UNCHANGED <<currentUser, users, seenCurrentUser, seenUsers, userStorage,
                 usersStorage, clock>>
  /\ AuthFrame

loginStart(email, password) ==
  Awaits([op |-> "login", email |-> email, password |-> password])

registerStart(username, email, password) ==
  Awaits([op |-> "register", username |-> username, email |-> email,
          password |-> password])

updateUserStart(updatedUser) ==
  /\ seenCurrentUser # << >>
  /\ Awaits([op |-> "updateUser",
             updated |-> Merge(seenCurrentUser[1], updatedUser)])

\* the timeouts have the same delay: they fire in call order
loginDone ==
  /\ pending # << >> /\ Head(pending).op = "login"
  /\ LET call == Head(pending)
         known == Find(call.users, LAMBDA u : u.email = call.email
                                              /\ u.password = call.password)
     IN  IF known # << >>
         THEN /\ currentUser' = known
              /\ authLog' = [authLog EXCEPT !.op = "login", !.ok = TRUE,
                                            !.closed = FALSE]
         ELSE /\ UNCHANGED currentUser
              /\ authLog' = [authLog EXCEPT !.op = "login", !.ok = FALSE]
  /\ pending' = Tail(pending)
  /\ UNCHANGED <<users, seenCurrentUser, seenUsers, userStorage, usersStorage, clock>>
  /\ AuthFrame

existingUser(call) ==
  Find(call.users, LAMBDA u : u.email = call.email \/ u.username = call.username)

registerDone ==
  /\ pending # << >> /\ Head(pending).op = "register"
  /\ LET call == Head(pending)
         newUser == NewUser(call.username, call.email, call.password,
                            call.username, clock)
         updatedUsers == Append(call.users, newUser)
     IN  IF existingUser(call) # << >>
         THEN /\ UNCHANGED <<currentUser, users, usersStorage>>
              /\ authLog' = [authLog EXCEPT !.op = "register", !.ok = FALSE]
         ELSE /\ users' = updatedUsers
              /\ usersStorage' = Item(updatedUsers)
              /\ currentUser' = << newUser >>
              /\ authLog' = [authLog EXCEPT !.op = "register", !.ok = TRUE,
                                            !.closed = FALSE]
  /\ pending' = Tail(pending)
  /\ UNCHANGED <<seenCurrentUser, seenUsers, userStorage, clock>>
  /\ AuthFrame

updateUserDone ==
  /\ pending # << >> /\ Head(pending).op = "updateUser"
  /\ LET call == Head(pending)
         updatedUsers ==
           MapSeq(call.users,
                  LAMBDA u : IF u.id = call.user[1].id THEN call.updated ELSE u)
     IN  /\ users' = updatedUsers
         /\ usersStorage' = Item(updatedUsers)
         /\ currentUser' = << call.updated >>
  /\ authLog' = [authLog EXCEPT !.op = "updateUser", !.ok = TRUE]
  /\ pending' = Tail(pending)
  /\ UNCHANGED <<seenCurrentUser, seenUsers, userStorage, clock>>
  /\ AuthFrame

logout ==
  /\ authLog.started < MaxAuthCalls
  /\ currentUser' = << >>
  /\ userStorage' = NoItem
  /\ authLog' = [op |-> "logout", ok |-> TRUE, closed |-> TRUE,
                 started |-> authLog.started + 1]
  /\ UNCHANGED <<users, seenCurrentUser, seenUsers, pending, usersStorage, clock>>
  /\ AuthFrame

\* the commit of a render; the session effect [user] runs when user changed
ARender ==
  /\ <<currentUser, users>> # <<seenCurrentUser, seenUsers>>
  /\ seenCurrentUser' = currentUser
  /\ seenUsers' = users
  /\ userStorage' =
        IF currentUser = seenCurrentUser THEN userStorage
        ELSE IF currentUser # << >> THEN Item(currentUser[1]) ELSE NoItem
  /\ UNCHANGED <<currentUser, users, pending, usersStorage, authLog, clock>>
  /\ AuthFrame

ATick ==
  /\ clock < MaxClock
  /\ clock' = clock + 1
  /\ UNCHANGED avars
  /\ AuthFrame

ANext ==
  \/ \E email \in Emails, password \in Passwords : loginStart(email, password)
  \/ \E username \in Usernames : registerStart(username, "b", "q")
  \/ \E updatedUser \in UserPatches : updateUserStart(updatedUser)
  \/ loginDone
  \/ registerDone
  \/ updateUserDone
  \/ logout
  \/ ARender
  \/ ATick

AuthInit ==
  AInit /\ FIdle /\ RIdle /\ SIdle /\ MIdle /\ DIdle /\ TIdle /\ PIdle /\ clock = 1

SpecAuth == AuthInit /\ [][ANext]_vars

-----------------------------------------------------------------------------
(* Text search *)

MaxQueryLen == 3
MaxSourceLen == 3
MaxTargetLen == 4
SearchLimit == 20
MinWordLen == 3

Alphabet == {"a", "b", "A", " "}

RECURSIVE StringsOfLen(_)
StringsOfLen(n) ==
  IF n = 0 THEN { << >> }
  ELSE {Append(t, c) : t \in StringsOfLen(n - 1), c \in Alphabet}

StringsUpTo(n) == UNION {StringsOfLen(k) : k \in 0 .. n}

Min3(x, y, z) == Min({x, y, z})

\* getLevenshteinDistance: row j of the matrix, matrix[j][i] for i in 0..|a|
RECURSIVE matrixRow(_, _, _)
\* mutant: a substitution costs 1 also when the characters are equal
matrixRow_NoIndicator(a, b, j) ==
  IF j = 0 THEN [i \in 0 .. Len(a) |-> i]
  ELSE LET prev == matrixRow(a, b, j - 1)
           row[i \in 0 .. Len(a)] ==
             IF i = 0 THEN j
             ELSE Min3(row[i - 1] + 1, prev[i] + 1, prev[i - 1] + 1)
       IN  row

matrixRow(a, b, j) ==
  IF j = 0 THEN [i \in 0 .. Len(a) |-> i]
  ELSE LET prev == matrixRow(a, b, j - 1)
           row[i \in 0 .. Len(a)] ==
             IF i = 0 THEN j
             ELSE LET indicator == IF a[i] = b[j] THEN 0 ELSE 1
                  IN  Min3(row[i - 1] + 1, prev[i] + 1, prev[i - 1] + indicator)
       IN  row

getLevenshteinDistance(a, b) == matrixRow(a, b, Len(b))[Len(a)]

\* Math.floor(n * tolerance), tolerance a fraction
FloorTimes(n, tol) == (n * tol.num) \div tol.den

DefaultTolerance == [num |-> 1, den |-> 5]

\* mutant: without the substring test of line 105
isFuzzyMatch_NoContains(src, tgt, tol) ==
  IF src = << >> \/ tgt = << >> THEN FALSE
  ELSE
    LET sourceLower == toLowerCase(src)
        targetLower == toLowerCase(tgt)
        maxDistance == Max({FloorTimes(Len(targetLower), tol), 1})
        words == split(targetLower)
        sourceWords == split(sourceLower)
    IN  \E w \in 1 .. Len(words) :
          /\ Len(words[w]) >= MinWordLen
          /\ \E v \in 1 .. Len(sourceWords) :
               /\ Len(sourceWords[v]) >= MinWordLen
               /\ getLevenshteinDistance(sourceWords[v], words[w]) <= maxDistance

isFuzzyMatch(src, tgt, tol) ==
  IF src = << >> \/ tgt = << >> THEN FALSE
  ELSE
    LET sourceLower == toLowerCase(src)
        targetLower == toLowerCase(tgt)
        maxDistance == Max({FloorTimes(Len(targetLower), tol), 1})
        words == split(targetLower)
        sourceWords == split(sourceLower)
    IN  IF includes(sourceLower, targetLower) \/ includes(targetLower, sourceLower)
        THEN TRUE
        ELSE \E w \in 1 .. Len(words) :
               /\ Len(words[w]) >= MinWordLen
               /\ \E v \in 1 .. Len(sourceWords) :
                    /\ Len(sourceWords[v]) >= MinWordLen
                    /\ getLevenshteinDistance(sourceWords[v], words[w]) <= maxDistance

Some(strs, P(_)) == \E i \in 1 .. Len(strs) : P(strs[i])

exactMatch(recipe, queryLower) ==
  LET hit(str) == includes(toLowerCase(str), queryLower)
  IN  \/ hit(recipe.Name)
      \/ hit(recipe.Description)
      \/ Some(recipe.Keywords, hit)
      \/ Some(recipe.RecipeIngredientParts, hit)

fuzzyMatchRecipe(recipe, queryLower) ==
  LET hit(str) == isFuzzyMatch(toLowerCase(str), queryLower, DefaultTolerance)
  IN  \/ hit(recipe.Name)
      \/ (recipe.Description # << >> /\ hit(recipe.Description))
      \/ Some(recipe.RecipeIngredientParts, hit)
      \/ Some(recipe.Keywords, hit)

\* mutant: the fuzzy matches are merged into the exact ones
searchRecipesWithFuzzy_Merged(q, recipesToSearch) ==
  LET queryLower == trim(toLowerCase(q))
      isEither(recipe) ==
        exactMatch(recipe, queryLower) \/ fuzzyMatchRecipe(recipe, queryLower)
  IN  IF queryLower = << >> THEN Take(recipesToSearch, SearchLimit)
      ELSE SelectSeq(recipesToSearch, isEither)

searchRecipesWithFuzzy(q, recipesToSearch) ==
  LET queryLower == trim(toLowerCase(q))
      isExact(recipe) == exactMatch(recipe, queryLower)
      isFuzzy(recipe) == fuzzyMatchRecipe(recipe, queryLower)
      exactMatches == SelectSeq(recipesToSearch, isExact)
  IN  IF queryLower = << >> THEN Take(recipesToSearch, SearchLimit)
      ELSE IF Len(exactMatches) > 0 THEN exactMatches
      ELSE SelectSeq(recipesToSearch, isFuzzy)

\* the recipes searched: one text in one of the four searched fields
Texts == { <<"a", "b", "a">>, <<"a", "b", "b">>, <<"A", "b">>, <<"b", " ", "a">>,
           <<"b", "a", "b", " ", "b">> }

TextRecipe(id, field, text) ==
  [RecipeId |-> id,
   Name |-> IF field = "Name" THEN text ELSE << >>,
   Description |-> IF field = "Description" THEN text ELSE << >>,
   Keywords |-> IF field = "Keywords" THEN << text >> ELSE << >>,
   RecipeIngredientParts |-> IF field = "RecipeIngredientParts"
                             THEN << <<"b">>, text >> ELSE << >>]

TextFields == {"Name", "Description", "Keywords", "RecipeIngredientParts"}

\* queries of several words, long enough for Math.floor(length * 0.2) >= 2
LongQueries ==
  { <<"a", "a", "a", " ", "b", "b", "b", "b", "b", "b">>,
    <<"b", "a", "b", "b", "b", " ", "a", "a", "a", "a", "a">> }

SInit ==
  /\ \E f1, f2 \in TextFields, t1, t2 \in Texts :
        collection = << TextRecipe(1, f1, t1), TextRecipe(2, f2, t2) >>
  /\ query \in StringsUpTo(MaxQueryLen) \cup LongQueries
  /\ found = [done |-> FALSE, val |-> << >>]
  /\ similar = [done |-> FALSE, val |-> << >>]

Search ==
  /\ ~found.done
  /\ found' = [done |-> TRUE, val |-> searchRecipesWithFuzzy(query, collection)]
  /\ UNCHANGED <<collection, query, similar>>
  /\ SearchFrame

SNext == Search

SearchInit == SInit /\ FIdle /\ RIdle /\ ZIdle /\ clock = 1

SpecSearch == SearchInit /\ [][SNext]_vars

\* collections around the length of the slice of the empty query
CollectionLengths == {0, 1, SearchLimit - 1, SearchLimit, SearchLimit + 1}

CollectionOfLen(n) == [i \in 1 .. n |-> TextRecipe(i, "Name", <<"a", "b", "a">>)]

EInit ==
  /\ \E n \in CollectionLengths : collection = CollectionOfLen(n)
  /\ query \in StringsUpTo(MaxQueryLen)
  /\ found = [done |-> FALSE, val |-> << >>]
  /\ similar = [done |-> FALSE, val |-> << >>]

ENext == Search

SliceInit == EInit /\ FIdle /\ RIdle /\ ZIdle /\ clock = 1

SpecSlice == SliceInit /\ [][ENext]_vars

\* SearchPage.  TotalTime is an ISO 8601 duration such as "PT1H30M": the model
\* keeps the number before "H" and the number before "M", each one absent
\* when the text has no such part
totalMinutes(recipe) ==
  LET totalTime == IF "TotalTime" \in DOMAIN recipe THEN recipe.TotalTime
                   ELSE [none |-> 0]
      hours == IF "H" \in DOMAIN totalTime THEN totalTime.H ELSE 0
      minutes == IF "M" \in DOMAIN totalTime THEN totalTime.M ELSE 0
  IN  hours * 60 + minutes

inCategories(recipe, categories) ==
  \/ /\ recipe.RecipeCategory # << >>
     /\ Some(categories, LAMBDA cat :
              includes(toLowerCase(recipe.RecipeCategory), toLowerCase(cat)))
  \/ Some(categories, LAMBDA cat :
           Some(recipe.Keywords, LAMBDA keyword :
                includes(toLowerCase(keyword), toLowerCase(cat))))

inTimes(recipe, times) ==
  \/ "quick" \in Range(times) /\ totalMinutes(recipe) < 30
  \/ "medium" \in Range(times) /\ totalMinutes(recipe) >= 30
                                /\ totalMinutes(recipe) <= 60
  \/ "long" \in Range(times) /\ totalMinutes(recipe) > 60

\* getRandomRecipes(recipes.length): the orders the shuffle can give
getRandomRecipes(rs) ==
  {[i \in 1 .. Len(rs) |-> rs[p[i]]] : p \in Permutations(1 .. Len(rs))}

filtered(results, categories, times) ==
  LET byCategory == IF categories # << >>
                    THEN SelectSeq(results, LAMBDA r : inCategories(r, categories))
                    ELSE results
  IN  IF times # << >> THEN SelectSeq(byCategory, LAMBDA r : inTimes(r, times))
      ELSE byCategory

queryFn ==
  /\ ~searchResults.done
  /\ IF query = << >> /\ selectedCategories = << >> /\ selectedTimes = << >>
     THEN \E shuffled \in getRandomRecipes(collection) :
             searchResults' = [done |-> TRUE, val |-> shuffled]
     ELSE searchResults' =
             [done |-> TRUE,
              val |-> filtered(searchRecipesWithFuzzy(query, collection),
                               selectedCategories, selectedTimes)]
  /\ UNCHANGED <<svars, selectedCategories, selectedTimes>>
  /\ PageFrame

PageRecipe(id, category, totalTime) ==
  [RecipeId |-> id, Name |-> <<"a", "b", "a">>, Description |-> << >>,
   Keywords |-> << <<"b", "b">> >>, RecipeIngredientParts |-> << >>,
   RecipeCategory |-> category, TotalTime |-> totalTime]

PageCategories == { <<"A", "b">>, <<"b">> }
PageTimes == { [M |-> 20], [H |-> 1, M |-> 30] }

\* two recipes, or one more than the slice of the empty query, the last one
\* differing from the others
PageCollections ==
  { << PageRecipe(1, c1, t1), PageRecipe(2, c2, t2) >> :
       c1 \in PageCategories, c2 \in PageCategories,
       t1 \in PageTimes, t2 \in PageTimes }
  \cup
  { [i \in 1 .. (SearchLimit + 1) |->
       IF i <= SearchLimit THEN PageRecipe(i, <<"b">>, [M |-> 20])
       ELSE PageRecipe(i, c, t)] : c \in PageCategories, t \in PageTimes }

PInit ==
  /\ collection \in PageCollections
  /\ query \in { << >>, <<"a">>, <<"b", "a", "b">> }
  /\ selectedCategories \in { << >>, << <<"a">> >>, << <<"a">>, <<"B">> >> }
  /\ selectedTimes \in { << >>, <<"quick">>, <<"medium", "long">> }
  /\ (query = << >> /\ selectedCategories = << >> /\ selectedTimes = << >>)
        => Len(collection) <= 2
  /\ found = [done |-> FALSE, val |-> << >>]
  /\ similar = [done |-> FALSE, val |-> << >>]
  /\ searchResults = [done |-> FALSE, val |-> << >>]

PNext == queryFn

PageInit ==
  PInit /\ FIdle /\ RIdle /\ MIdle /\ DIdle /\ TIdle /\ AIdle /\ clock = 1

SpecPage == PageInit /\ [][PNext]_vars

\* findSimilarTerms
SuggestionLimit == 5

\* Set.prototype.add of every term, in order: a Set keeps the insertion order
RECURSIVE addAll(_, _)
addAll(allTerms, terms) ==
  IF terms = << >> THEN allTerms
  ELSE addAll(IF Head(terms) \in Range(allTerms) THEN allTerms
              ELSE Append(allTerms, Head(terms)),
              Tail(terms))

\* the words of a string that are longer than 3 characters, in lower case
longWords(str) ==
  MapSeq(SelectSeq(split(str), LAMBDA word : Len(word) > 3), toLowerCase)

RECURSIVE wordsOfAll(_)
wordsOfAll(strs) ==
  IF strs = << >> THEN << >>
  ELSE longWords(Head(strs)) \o wordsOfAll(Tail(strs))

termsOfRecipe(recipe) ==
  longWords(recipe.Name) \o wordsOfAll(recipe.RecipeIngredientParts)
    \o MapSeq(recipe.Keywords, toLowerCase)

RECURSIVE collectTerms(_, _)
collectTerms(allTerms, recipesToScan) ==
  IF recipesToScan = << >> THEN allTerms
  ELSE collectTerms(addAll(allTerms, termsOfRecipe(Head(recipesToScan))),
                    Tail(recipesToScan))

similarityThreshold(term) ==
  Min({2, FloorTimes(Len(term), [num |-> 3, den |-> 10])})

\* mutant: the similar terms are not sorted
sortByDistance_Unsorted(terms, queryLower) == terms

\* Array.prototype.sort with the difference of the distances: a stable sort,
\* the terms of equal distance keep their order
RECURSIVE sortByDistance(_, _)
sortByDistance(terms, queryLower) ==
  IF terms = << >> THEN << >>
  ELSE LET dist(term) == getLevenshteinDistance(term, queryLower)
           least == Min({dist(terms[i]) : i \in 1 .. Len(terms)})
       IN  SelectSeq(terms, LAMBDA term : dist(term) = least)
             \o sortByDistance(SelectSeq(terms, LAMBDA term : dist(term) # least),
                               queryLower)

findSimilarTerms(q, recipesToScan) ==
  LET allTerms == collectTerms(<< >>, recipesToScan)
      queryLower == toLowerCase(q)
      isSimilar(term) ==
        getLevenshteinDistance(term, queryLower) <= similarityThreshold(term)
      similarTerms == SelectSeq(allTerms, isSimilar)
  IN  Take(sortByDistance(similarTerms, queryLower), SuggestionLimit)

\* the recipes and the queries findSimilarTerms is called with
TermRecipes ==
  { [RecipeId |-> 1, Name |-> <<"a", "b", "a", "b", " ", "a", "b", "a", "a", " ", "a", "b", "b", "b">>,
   Description |-> << >>,
   RecipeIngredientParts |-> <<<<"a", "a", "a", "b", " ", "b", "b", "a", "b">>, <<"a", "b">>>>,
   Keywords |-> <<<<"A", "b", "a", "b">>, <<"a", "b", "a">>>>],
    [RecipeId |-> 2, Name |-> <<"a", "b", "a", "b", "a", " ", "b">>,
   Description |-> << >>,
   RecipeIngredientParts |-> <<<<"b", "a", "b", "a", "b">>>>,
   Keywords |-> <<<<"a", "b", "a", "b", " ", "b">>>>],
    [RecipeId |-> 3, Name |-> <<"b", "b", "b", "b", " ", "A", "b", "a", "b">>,
   Description |-> << >>,
   RecipeIngredientParts |-> << >>,
   Keywords |-> <<<<"b", "b", "b", "b", "a">>>>],
    [RecipeId |-> 4, Name |-> <<"a", "a", "b">>,
   Description |-> << >>,
   RecipeIngredientParts |-> <<<<"a", "b", "a", "b", "a", "b", "a", " ", "a", "b", "a", "b", "a", "b", "b">>>>,
   Keywords |-> << >>] }

TermQueries ==
  { <<"a", "b", "a", "b">>,
    <<"A", "b", "A", "b">>,
    <<"a", "b", "a", "b", " ">>,
    <<"b", "b", "b", "b">>,
    <<"a", "b", "a", "b", "a", "b">>,
    <<"a", "b", "a">>,
    << >> }

GInit ==
  /\ \E r1, r2 \in TermRecipes : collection = << r1, r2 >>
  /\ query \in TermQueries
  /\ found = [done |-> FALSE, val |-> << >>]
  /\ similar = [done |-> FALSE, val |-> << >>]

Suggest ==
  /\ ~similar.done
  /\ similar' = [done |-> TRUE, val |-> findSimilarTerms(query, collection)]
  /\ UNCHANGED <<collection, query, found>>
  /\ SearchFrame

GNext == Suggest

SuggestInit == GInit /\ FIdle /\ RIdle /\ ZIdle /\ clock = 1

SpecSuggest == SuggestInit /\ [][GNext]_vars

Tolerances == {DefaultTolerance, [num |-> 1, den |-> 2]}

ZInit ==
  /\ source \in StringsUpTo(MaxSourceLen)
  /\ target \in StringsUpTo(MaxTargetLen)
  /\ tolerance \in Tolerances
  /\ matched = [done |-> FALSE, val |-> FALSE]

Match ==
  /\ ~matched.done
  /\ matched' = [done |-> TRUE, val |-> isFuzzyMatch(source, target, tolerance)]
  /\ UNCHANGED <<source, target, tolerance>>
  /\ MatchFrame

ZNext == Match

FuzzyInit == ZInit /\ DIdle /\ TIdle /\ AIdle /\ PIdle /\ FIdle /\ RIdle /\ SIdle /\ clock = 1

SpecFuzzy == FuzzyInit /\ [][ZNext]_vars

\* getLevenshteinDistance on the strings over two letters
MaxDistLen == 3

DistAlphabet == {"a", "b"}

DistStrings ==
  {str \in StringsUpTo(MaxDistLen) : \A i \in 1 .. Len(str) : str[i] \in DistAlphabet}

DInit ==
  /\ strA \in DistStrings
  /\ strB \in DistStrings
  /\ strC \in DistStrings
  /\ distances = NoDistances

Measure ==
  /\ ~distances.done
  /\ distances' = [done |-> TRUE,
                   aa |-> getLevenshteinDistance(strA, strA),
                   ab |-> getLevenshteinDistance(strA, strB),
                   ba |-> getLevenshteinDistance(strB, strA),
                   ac |-> getLevenshteinDistance(strA, strC),
                   cb |-> getLevenshteinDistance(strC, strB)]
  /\ UNCHANGED <<strA, strB, strC>>
  /\ DistanceFrame

DNext == Measure

DistanceInit == DInit /\ MIdle /\ TIdle /\ AIdle /\ PIdle /\ FIdle /\ RIdle /\ SIdle /\ clock = 1

SpecDistance == DistanceInit /\ [][DNext]_vars

-----------------------------------------------------------------------------
(* Claims about the text functions *)

\* the Levenshtein distance with unit costs, by its recursive definition
RECURSIVE Lev(_, _)
Lev(x, y) ==
  IF x = << >> THEN Len(y)
  ELSE IF y = << >> THEN Len(x)
  ELSE IF Head(x) = Head(y) THEN Lev(Tail(x), Tail(y))
  ELSE 1 + Min3(Lev(Tail(x), y), Lev(x, Tail(y)), Lev(Tail(x), Tail(y)))

\* C18: editDistance is the Levenshtein distance with unit costs and a
\* metric: editDistance(a, a) = 0, editDistance(a, b) = editDistance(b, a),
\* editDistance(a, b) <= editDistance(a, c) + editDistance(c, b).
C18_EditDistanceMetric ==
  distances.done =>
    /\ distances.ab = Lev(strA, strB)
    /\ distances.aa = 0
    /\ distances.ab = distances.ba
    /\ distances.ab <= distances.ac + distances.cb

\* C18 witness: the distances of three different strings were computed, the
\* detour over the third string being strictly longer in one case and an
\* equality in the triangle being reached in others.
C18_Witness ==
  /\ distances.done
  /\ strA # strB /\ strB # strC /\ strA # strC
  /\ Len(strA) # Len(strB)
  /\ distances.ab >= 2
  /\ distances.ab < distances.ac + distances.cb


\* the strings of a recipe the search looks at
SearchedStrings(recipe) ==
  {recipe.Name, recipe.Description} \cup Range(recipe.Keywords)
    \cup Range(recipe.RecipeIngredientParts)

\* some searched string of the recipe contains q, letter case ignored
Contains(recipe, q) ==
  \E str \in SearchedStrings(recipe) : includes(toLowerCase(str), toLowerCase(q))

\* C7 as claimed: for a non-empty (not only whitespace) query, if some recipe
\* contains the query as a case-insensitive substring, search returns exactly
\* the recipes that contain it.
C7_ExactPassLiteralQuery ==
  (found.done /\ trim(query) # << >>
     /\ Some(collection, LAMBDA r : Contains(r, query)))
    => found.val = SelectSeq(collection, LAMBDA r : Contains(r, query))

\* C7: for a query that is non-empty once trimmed, if some recipe contains the
\* trimmed query as a case-insensitive substring, search returns exactly the
\* recipes that contain it, in collection order, and none that only matches
\* through the fuzzy pass.
C7_ExactPassPrecedence ==
  LET q == trim(query) IN
  (found.done /\ q # << >> /\ Some(collection, LAMBDA r : Contains(r, q)))
    => /\ found.val = SelectSeq(collection, LAMBDA r : Contains(r, q))
       /\ \A i \in 1 .. Len(found.val) : Contains(found.val[i], q)

\* C7 witness: the search has run on a collection with a recipe that contains
\* the query and a recipe that matches it only through the fuzzy pass.
C7_Witness ==
  LET q == trim(query) IN
  /\ found.done
  /\ q # << >>
  /\ Some(collection, LAMBDA r : Contains(r, q))
  /\ Some(collection, LAMBDA r : ~Contains(r, q)
                                   /\ fuzzyMatchRecipe(r, toLowerCase(q)))
  /\ Len(found.val) = 1

\* C17: for a query that is non-empty once trimmed and that no recipe
\* contains, search returns exactly the recipes of which the Name, the
\* Description, a Keywords entry or a RecipeIngredientParts entry fuzzy-matches
\* the query (fuzzyMatch as specified: the threshold of a pair of words is
\* max(floor(len(target word) * 0.2), 1)), in collection order; and in both
\* passes the result is a subsequence of the collection.
C17_FuzzyPassExact ==
  LET q == trim(query)
      wordsOf(str) == {w \in Range(split(toLowerCase(str))) : Len(w) >= MinWordLen}
      fuzzyMatch(src, tgt) ==
        /\ src # << >> /\ tgt # << >>
        /\ \/ includes(toLowerCase(src), toLowerCase(tgt))
           \/ includes(toLowerCase(tgt), toLowerCase(src))
           \/ \E w \in wordsOf(tgt), v \in wordsOf(src) :
                getLevenshteinDistance(v, w)
                  <= Max({FloorTimes(Len(w), DefaultTolerance), 1})
      matches(r) == \E str \in SearchedStrings(r) : fuzzyMatch(str, q)
  IN  found.done =>
        /\ \E idx \in SUBSET (1 .. Len(collection)) :
              found.val = SelectSeq(collection,
                                    LAMBDA r : \E i \in idx : collection[i] = r)
        /\ (q # << >> /\ ~Some(collection, LAMBDA r : Contains(r, q))) =>
              found.val = SelectSeq(collection, matches)

\* C21: for a query that is empty or holds only whitespace, search returns the
\* first min(20, n) recipes of the collection of n recipes, in collection
\* order and unmodified.
C21_EmptyQuerySlice ==
  LET n == Len(collection)
      k == IF n < 20 THEN n ELSE 20
  IN  (found.done /\ \A i \in 1 .. Len(query) : query[i] = " ") =>
         /\ Len(found.val) = k
         /\ \A i \in 1 .. k : found.val[i] = collection[i]

\* a whitespace-only query over a collection of more than 20 recipes
C21_Witness ==
  /\ found.done
  /\ Len(query) > 0
  /\ \A i \in 1 .. Len(query) : query[i] = " "
  /\ Len(collection) > 20
  /\ Len(found.val) = 20

\* C30: on the search page, for an empty query with a category or a
\* cooking-time filter selected, every recipe of the collection that passes
\* the selected filters is in the result.
C30_FiltersWholeCollection ==
  LET minutes(r) ==
        (IF "H" \in DOMAIN r.TotalTime THEN 60 * r.TotalTime.H ELSE 0)
          + (IF "M" \in DOMAIN r.TotalTime THEN r.TotalTime.M ELSE 0)
      texts(r) == {r.RecipeCategory} \cup Range(r.Keywords)
      passesCategory(r) ==
        selectedCategories # << >> =>
          \E cat \in Range(selectedCategories), t \in texts(r) :
             includes(toLowerCase(t), toLowerCase(cat))
      passesTime(r) ==
        selectedTimes # << >> =>
          \/ "quick" \in Range(selectedTimes) /\ minutes(r) < 30
          \/ "medium" \in Range(selectedTimes) /\ minutes(r) \in 30 .. 60
          \/ "long" \in Range(selectedTimes) /\ minutes(r) > 60
  IN  (/\ searchResults.done
       /\ query = << >>
       /\ selectedCategories # << >> \/ selectedTimes # << >>)
      => \A r \in Range(collection) :
            (passesCategory(r) /\ passesTime(r)) => r \in Range(searchResults.val)

\* the words of a string that take part in the fuzzy comparison
FuzzyWords(str) ==
  {w \in Range(split(toLowerCase(str))) : Len(w) >= 3}

\* C8: when neither case-folded string contains the other, isFuzzyMatch is
\* true iff a word w of the target and a word v of the source, both of length
\* >= 3, have editDistance(v, w) <= max(floor(len(w) * tolerance), 1).
C8_FuzzyWordThreshold ==
  (/\ matched.done
   /\ ~includes(toLowerCase(source), toLowerCase(target))
   /\ ~includes(toLowerCase(target), toLowerCase(source)))
    => (matched.val <=>
          \E w \in FuzzyWords(target), v \in FuzzyWords(source) :
             getLevenshteinDistance(v, w)
               <= Max({(Len(w) * tolerance.num) \div tolerance.den, 1}))

\* C19: fuzzyMatch(s, s) is true for every non-empty string s, and
\* fuzzyMatch is false when the source or the target is empty (or undefined).
C19_FuzzyReflexive ==
  matched.done =>
    /\ (source # << >> /\ source = target) => matched.val
    /\ (source = << >> \/ target = << >>) => ~matched.val

\* C19 witness: a non-empty string none of whose words takes part in the fuzzy
\* comparison was matched against itself.
C19_Witness ==
  /\ matched.done
  /\ source # << >>
  /\ source = target
  /\ FuzzyWords(source) = {}
  /\ matched.val

\* the vocabulary of a collection: the case-folded words longer than 3
\* characters of the names and of the ingredient parts, and every keyword
\* case-folded
Vocabulary(recipesToScan) ==
  LET wordsIn(str) == {toLowerCase(w) : w \in {v \in Range(split(str)) : Len(v) > 3}}
  IN  UNION { wordsIn(r.Name)
                \cup UNION {wordsIn(p) : p \in Range(r.RecipeIngredientParts)}
                \cup {toLowerCase(k) : k \in Range(r.Keywords)}
              : r \in Range(recipesToScan) }

QueryDistance(term) == getLevenshteinDistance(term, toLowerCase(query))

Accepted(recipesToScan) ==
  {term \in Vocabulary(recipesToScan) :
     QueryDistance(term) <= Min({2, (Len(term) * 3) \div 10})}

\* C20: suggestSimilarTerms(query) returns at most 5 terms, each a term of
\* the vocabulary with editDistance(term, lowercased query)
\* <= min(2, floor(len(term) * 0.3)), sorted by ascending distance, and no
\* accepted term that is left out is strictly closer to the query than a
\* returned one.
C20_SimilarTerms ==
  similar.done =>
    LET out == similar.val IN
    /\ Len(out) <= 5
    /\ \A i \in 1 .. Len(out) : out[i] \in Accepted(collection)
    /\ \A i, j \in 1 .. Len(out) :
          i < j => QueryDistance(out[i]) <= QueryDistance(out[j])
    /\ \A term \in Accepted(collection) \ Range(out) :
          \A i \in 1 .. Len(out) : QueryDistance(term) >= QueryDistance(out[i])

\* C20 witness: more than 5 terms were accepted, 5 were returned, the closest
\* one (found in the second recipe) first.
C20_Witness ==
  /\ similar.done
  /\ Cardinality(Accepted(collection)) > 5
  /\ Len(similar.val) = 5
  /\ QueryDistance(similar.val[1]) = 0
  /\ QueryDistance(similar.val[5]) = 1
  /\ similar.val[1] \notin Vocabulary(<< collection[1] >>)

-----------------------------------------------------------------------------
(* Claims about the FolderProvider *)

BookmarksOf(bms, u, r) ==
  LET p(bookmark) == bookmark.userId = u /\ bookmark.recipeId = r
  IN  SelectSeq(bms, p)

FolderIds(fs) == {fs[i].id : i \in 1 .. Len(fs)}

\* C1: for every user and every recipe at most one Bookmark exists for the
\* (userId, recipeId) pair, and after an addBookmark call that one Bookmark
\* carries the folderId and the rating passed to the call.
C1_BookmarkUniqueness ==
  /\ \A u \in Users, r \in RecipeIds : Len(BookmarksOf(bookmarks, u, r)) <= 1
  /\ lastOp.op = "addBookmark" =>
       LET own == BookmarksOf(bookmarks, lastOp.userId, lastOp.recipeId)
       IN  /\ Len(own) = 1
           /\ own[1].folderId = lastOp.folderId
           /\ own[1].rating = lastOp.rating

\* C2: after deleteFolder(f) the folder f is gone and no Bookmark has
\* folderId = f; once the render that follows has happened, getUserFolders()
\* does not list f, getBookmarksByFolder(f) is empty and no Bookmark the
\* readers see has folderId = f: the two removals are in the same render.
C2_CascadeIntegrity ==
  lastOp.op = "deleteFolder" =>
    LET f == lastOp.folderId IN
    /\ f \notin FolderIds(folders)
    /\ \A i \in 1 .. Len(bookmarks) : bookmarks[i].folderId # f
    /\ lastOp.rendered =>
         /\ f \notin FolderIds(getUserFolders(seenUser, seenFolders))
         /\ f \notin FolderIds(seenFolders)
         /\ getBookmarksByFolder(seenUser, seenBookmarks, f) = << >>
         /\ \A i \in 1 .. Len(seenBookmarks) : seenBookmarks[i].folderId # f

\* C2 witness: deleteFolder(f) removed a folder and the two bookmarks in it,
\* and the render after the call has happened.
C2_Witness ==
  /\ lastOp.op = "deleteFolder"
  /\ lastOp.rendered
  /\ lastOp.removedFolders = 1
  /\ lastOp.removedBookmarks = 2
  /\ seenUser # NoUser

\* C3: every Bookmark's folderId is the id of a Folder of the folder
\* collection.
C3_NoOrphanBookmark ==
  \A i \in 1 .. Len(bookmarks) : bookmarks[i].folderId \in FolderIds(folders)

\* C10: an addBookmark call for a recipe the user has bookmarked already
\* leaves the number of bookmarks unchanged, keeps id, recipeId, userId and
\* createdAt of every Bookmark, and gives the user's Bookmark of that recipe
\* the folderId and rating of the call.
C10_UpsertInPlace ==
  [][\A r \in RecipeIds, f \in FolderIdArgs, rt \in BookmarkRatings :
       (addBookmark(r, f, rt) /\ Len(BookmarksOf(bookmarks, seenUser, r)) > 0) =>
          /\ Len(bookmarks') = Len(bookmarks)
          /\ \A i \in 1 .. Len(bookmarks) :
                /\ bookmarks'[i].id = bookmarks[i].id
                /\ bookmarks'[i].recipeId = bookmarks[i].recipeId
                /\ bookmarks'[i].userId = bookmarks[i].userId
                /\ bookmarks'[i].createdAt = bookmarks[i].createdAt
          /\ \A i \in 1 .. Len(bookmarks) :
                (bookmarks[i].recipeId = r /\ bookmarks[i].userId = seenUser) =>
                   (bookmarks'[i].folderId = f /\ bookmarks'[i].rating = rt)
    ]_vars

-----------------------------------------------------------------------------
(* Claims about the sessions of several users *)

OwnedBy(s, u) == SelectSeq(s, LAMBDA x : x.userId = u)

AllOwnedBy(s, u) == \A i \in 1 .. Len(s) : s[i].userId = u

\* C11: while user U is present, the readers (getUserFolders, getFolderById,
\* getBookmarksByFolder, getBookmarkByRecipeId) return no record owned by
\* another user, and a handler call (updateFolder, deleteFolder,
\* updateBookmark, removeBookmark, ...) leaves the folders and the bookmarks
\* owned by every other user as they were.
C11_UserScoped ==
  [][seenUser # NoUser =>
       /\ AllOwnedBy(getUserFolders(seenUser, seenFolders), seenUser)
       /\ \A f \in UFolderIdArgs :
            /\ AllOwnedBy(getFolderById(seenFolders, f), seenUser)
            /\ AllOwnedBy(getBookmarksByFolder(seenUser, seenBookmarks, f), seenUser)
       /\ \A r \in RecipeIds :
            AllOwnedBy(getBookmarkByRecipeId(seenUser, seenBookmarks, r), seenUser)
       /\ calls' # calls =>
            \A u \in Users \ {seenUser} :
              /\ OwnedBy(folders', u) = OwnedBy(folders, u)
              /\ OwnedBy(bookmarks', u) = OwnedBy(bookmarks, u)
    ]_vars

\* C15: when a user starts a session for which no folder of theirs is
\* persisted, the load yields exactly two folders owned by that user, named
\* 'Favorites' and 'Try Later', with distinct ids, and getUserFolders()
\* returns those two, also when folders of another user are persisted.
C15_DefaultFoldersSeeded ==
  [][(/\ Render /\ LoadRuns
      /\ \/ ~storage.folders.set
         \/ OwnedBy(storage.folders.val, user) = << >>) =>
        LET own == getUserFolders(user, folders') IN
        /\ Len(own) = 2
        /\ own[1].name = "Favorites"
        /\ own[2].name = "Try Later"
        /\ own[1].id # own[2].id
    ]_vars

\* C16: when no user is present, a call of createFolder, updateFolder,
\* deleteFolder, addBookmark, updateBookmark or removeBookmark leaves the
\* folder and bookmark collections and their persisted documents unchanged,
\* the render that follows writes nothing, and getUserFolders,
\* getBookmarksByFolder and getBookmarkByRecipeId return empty/absent.
C16_NoUserNoEffect ==
  [][/\ seenUser = NoUser =>
          /\ getUserFolders(seenUser, seenFolders) = << >>
          /\ \A f \in UFolderIdArgs :
                getBookmarksByFolder(seenUser, seenBookmarks, f) = << >>
          /\ \A r \in RecipeIds :
                getBookmarkByRecipeId(seenUser, seenBookmarks, r) = << >>
          /\ calls' # calls => UNCHANGED <<folders, bookmarks, storage>>
     /\ (user = NoUser /\ Render) => UNCHANGED <<folders, bookmarks, storage>>
    ]_vars

\* C16 witness: after a session that left folders in memory and in the
\* document, the user is gone and a handler was called: it returned at once.
C16_Witness ==
  /\ lastOp.op = "return"
  /\ user = NoUser
  /\ seenUser = NoUser
  /\ Len(folders) > 0
  /\ Len(seenFolders) > 0
  /\ storage.folders.set
  /\ Len(storage.folders.val) > 0

MutatingOps ==
  {"createFolder", "updateFolder", "deleteFolder", "addBookmark",
   "updateBookmark", "removeBookmark"}

\* C12: when the persistence write fails during a folder or bookmark
\* operation (setItem throws in the render that follows the call), the
\* collections the provider shows after that render are those it showed
\* (and had persisted) before the operation: no mutation is retained.
C12_FailedWriteKeepsState ==
  [][(/\ Render /\ PersistRuns /\ ~LoadRuns /\ quota
      /\ lastOp.op \in MutatingOps /\ ~lastOp.rendered
      /\ storage = [folders |-> Item(seenFolders),
                    bookmarks |-> Item(seenBookmarks)]) =>
        /\ seenFolders' = seenFolders
        /\ seenBookmarks' = seenBookmarks
        /\ folders' = seenFolders
        /\ bookmarks' = seenBookmarks
    ]_vars

-----------------------------------------------------------------------------
(* Claims about the RecipeProvider *)

\* C22: a call of getTopRated(count) returns min(count, k) recipes, k being
\* the number of recipes with AggregatedRating > 0; every returned recipe is
\* one of those, the ratings do not increase along the result, no recipe left
\* out is rated strictly above a returned one, and the call leaves the
\* collection as it was.  A recipe made by addRecipe is returned only when a
\* review with its RecipeId exists.
C22_TopRated ==
  [][(listed' # listed /\ listed'.op = "topRated") =>
       LET res == listed'.val
           count == listed'.count
           rated == SelectSeq(seenRecipes, LAMBDA r : r.AggregatedRating.num > 0)
           times(sq, r) == Cardinality({i \in 1 .. Len(sq) : sq[i] = r})
           above(x, y) == x.AggregatedRating.num * y.AggregatedRating.den
                            > y.AggregatedRating.num * x.AggregatedRating.den
       IN  /\ Len(res) = IF count < Len(rated) THEN count ELSE Len(rated)
           /\ \A r \in Range(res) : times(res, r) <= times(rated, r)
           /\ \A i \in 1 .. Len(res) - 1 : ~above(res[i + 1], res[i])
           /\ \A r \in Range(rated) :
                 times(res, r) < times(rated, r) =>
                    \A x \in Range(res) : ~above(r, x)
           /\ \A r \in Range(res) :
                 r.Name \in RecipeNames => ReviewsOf(seenReviews, r.RecipeId) # << >>
           /\ recipes' = recipes
           /\ seenRecipes' = seenRecipes
    ]_vars

\* the top-rated list holds a created recipe that has a review, and leaves
\* out a created recipe that has none and a rated recipe beyond the count
C22_Witness ==
  /\ listed.op = "topRated"
  /\ listed.val = getTopRatedRecipes(seenRecipes, listed.count)
  /\ \E i \in 1 .. Len(listed.val) : listed.val[i].Name \in RecipeNames
  /\ \E j \in 1 .. Len(seenRecipes) :
        /\ seenRecipes[j].Name \in RecipeNames
        /\ seenRecipes[j].AggregatedRating.num = 0
  /\ \E j \in 1 .. Len(seenRecipes) :
        /\ seenRecipes[j].AggregatedRating.num > 0
        /\ seenRecipes[j] \notin Range(listed.val)

\* C23: when an addRecipe call completes, the recipe it created is the first of
\* the collection, so that getRecent(1) returns it, and the recipes that were
\* there before follow it in their order, none missing; this holds as well
\* while other addRecipe calls are in flight.
C23_AddRecipePrepends ==
  [][Len(inFlight') < Len(inFlight) =>
       LET call == Head(inFlight)
           recent == getRecentRecipes(recipes', 1)
       IN  /\ Len(recent) = 1
           /\ recent[1].Name = call.name
           /\ recent[1].RecipeId = NewRecipeId(call.recipes)
           /\ recent[1] \notin Range(call.recipes)
           /\ Len(recipes') = Len(recipes) + 1
           /\ \A i \in 1 .. Len(recipes) : recipes'[i + 1] = recipes[i]
    ]_vars

\* two calls overlapped (they drew the same RecipeId), both have completed and
\* getRecent(1) of the following render returned the recipe of the second
C23_Witness ==
  /\ inFlight = << >>
  /\ Len(recipes) >= 3
  /\ recipes[1].Name \in RecipeNames
  /\ recipes[2].Name \in RecipeNames
  /\ recipes[1].RecipeId = recipes[2].RecipeId
  /\ seenRecipes = recipes
  /\ listed = [op |-> "recent", count |-> 1, val |-> << recipes[1] >>]

\* C24: when loadData loads reviews, every recipe gets as ReviewCount the
\* number of loaded reviews with its RecipeId and, when that number is
\* positive, as AggregatedRating their mean; a recipe without such a review
\* keeps the AggregatedRating it had before the recompute.
C24_LoadRecompute ==
  [][(isLoading /\ ~isLoading' /\ recipes = << >> /\ reviews' # << >>) =>
       LET before == recipeStorage'.val
           matching(recipe) ==
             {k \in 1 .. Len(reviews') : reviews'[k].RecipeId = recipe.RecipeId}
           RECURSIVE total(_)
           total(ks) == IF ks = {} THEN 0
                        ELSE LET k == CHOOSE x \in ks : TRUE
                             IN  reviews'[k].Rating + total(ks \ {k})
       IN  /\ Len(recipes') = Len(before)
           /\ \A i \in 1 .. Len(recipes') :
                 LET recipe == recipes'[i]
                     n == Cardinality(matching(recipe))
                 IN  /\ recipe.RecipeId = before[i].RecipeId
                     /\ recipe.ReviewCount = n
                     /\ n > 0 =>
                          recipe.AggregatedRating.num * n
                            = total(matching(recipe)) * recipe.AggregatedRating.den
                     /\ n = 0 =>
                          recipe.AggregatedRating = before[i].AggregatedRating
    ]_vars

\* loadData has run: one recipe got a new mean, another one, without a loaded
\* review, kept a positive rating and got the count 0
C24_Witness ==
  /\ ~isLoading
  /\ reviews # << >>
  /\ \E i \in 1 .. Len(recipes) :
        /\ recipes[i].ReviewCount = 0
        /\ recipes[i].AggregatedRating.num > 0
        /\ ReviewsOf(reviews, recipes[i].RecipeId) = << >>
  /\ \E j \in 1 .. Len(recipes) :
        /\ recipes[j].ReviewCount > 0
        /\ recipes[j].AggregatedRating # recipeStorage.val[j].AggregatedRating

\* C25: removeBookmark(b) takes exactly one bookmark out of the collection, one
\* whose id is b (none when no bookmark has that id); every other bookmark
\* stays as it was, in its place, and the folders are unchanged.
C25_RemoveExactlyOne ==
  [][(calls' = calls + 1 /\ lastOp'.op = "removeBookmark") =>
       LET b == lastOp'.bookmarkId
           hit == {i \in 1 .. Len(bookmarks) : bookmarks[i].id = b}
           without(i) == SubSeq(bookmarks, 1, i - 1)
                           \o SubSeq(bookmarks, i + 1, Len(bookmarks))
       IN  /\ folders' = folders
           /\ hit = {} => bookmarks' = bookmarks
           /\ hit # {} => \E i \in hit : bookmarks' = without(i)
    ]_vars

\* C26: processRecipes applied to its own result changes neither the Name, nor
\* the Description, nor a list field of a recipe; sanitizeText applied twice
\* gives what it gives applied once.
C26_IngestionIdempotent ==
  ingested.done =>
    /\ Len(ingested.twice) = Len(ingested.once)
    /\ \A i \in 1 .. Len(ingested.once) :
          /\ ingested.twice[i].Name = ingested.once[i].Name
          /\ ingested.twice[i].Description = ingested.once[i].Description
          /\ ingested.twice[i].Keywords = ingested.once[i].Keywords
    /\ \A name \in {"Name", "Description"} :
          name \in DOMAIN rawRecipe =>
             sanitizeText(sanitizeText(rawRecipe[name])) = sanitizeText(rawRecipe[name])

\* C29: isLoading is true as long as an addRecipe call (a searchRecipes call
\* completes in the turn it starts in) is in progress, and false when no call
\* is in progress any more.
C29_LoadingWhileInProgress ==
  /\ inFlight # << >> => isLoading
  /\ inFlight = << >> => ~isLoading

\* C4: for every recipe, ReviewCount is the number of reviews of the review
\* collection with its RecipeId, and when that number is > 0 AggregatedRating
\* is the arithmetic mean of their Rating values.
C4_AggregateConsistency ==
  \A i \in 1 .. Len(recipes) :
    LET own == ReviewsOf(reviews, recipes[i].RecipeId)
    IN  /\ recipes[i].ReviewCount = Len(own)
        /\ Len(own) > 0 =>
             recipes[i].AggregatedRating = Quot(SumRatings(own), Len(own))

\* C5: RecipeId is unique across the recipe collection.
C5_RecipeIdUnique ==
  \A i, j \in 1 .. Len(recipes) :
    i # j => recipes[i].RecipeId # recipes[j].RecipeId

\* C6: the recipe addRecipe inserts has a RecipeId strictly greater than the
\* RecipeId of every recipe in the collection just before the insert; it is
\* max(existing ids, 0) + 1.
C6_RecipeIdMonotonic ==
  [][addRecipeDone =>
       /\ \A i \in 1 .. Len(recipes) : recipes'[1].RecipeId > recipes[i].RecipeId
       /\ recipes'[1].RecipeId = Max(Range(RecipeIdsOf(recipes)) \cup {0}) + 1
    ]_vars

\* C9: for the recipe addReview is called for, the aggregates the call leaves
\* are those the full recompute gives on the review collection after the
\* insert.
C9_SinglePathEqualsRecompute ==
  [][\A id \in Range(RecipeIdsOf(seenRecipes)), rt \in ReviewRatings :
       addReview(id, rt) =>
         \A i \in 1 .. Len(recipes) :
           recipes[i].RecipeId = id =>
             /\ recipes'[i].AggregatedRating =
                  RecomputeAggregates(recipes, reviews')[i].AggregatedRating
             /\ recipes'[i].ReviewCount =
                  RecomputeAggregates(recipes, reviews')[i].ReviewCount
    ]_vars

\* C13: after a completed mutation of the recipe store (addRecipe, addReview)
\* the persisted recipe document equals the recipe collection, with the
\* AggregatedRating and ReviewCount of every recipe, so that a reload observes
\* the same recipes.
C13_PersistedEqualsMemory ==
  [][(\/ addRecipeDone
      \/ \E id \in Range(RecipeIdsOf(seenRecipes)), rt \in ReviewRatings :
            addReview(id, rt))
       => recipeStorage' = Item(recipes')
    ]_vars

-----------------------------------------------------------------------------
(* Claims about the AuthProvider *)

\* C27: from a logout on, until a login or a register succeeds, user is null
\* and localStorage holds no savory_user entry.
C27_SessionStaysClosed ==
  authLog.closed => (currentUser = << >> /\ ~userStorage.set)

\* C28: no two users of the collection share an email or a username; a
\* register call that returns while a user of the collection has its email or
\* its username returns false and leaves the collection as it is.
C28_RegisterUnique ==
  /\ [](\A i, j \in 1 .. Len(users) :
          i # j => /\ users[i].email # users[j].email
                   /\ users[i].username # users[j].username)
  /\ [][(pending # << >> /\ Head(pending).op = "register"
          /\ pending' = Tail(pending)
          /\ \E i \in 1 .. Len(users) :
                \/ users[i].email = Head(pending).email
                \/ users[i].username = Head(pending).username)
         => (~authLog'.ok /\ users' = users /\ usersStorage' = usersStorage)
       ]_vars

-----------------------------------------------------------------------------
(* Claims about the start of the application *)

\* C14: when a persisted document is not parseable JSON at startup, loading
\* falls back to the bundled content: loadData yields the recipes of the
\* bundled data set, and the load effect of the folder store yields the two
\* default folders of the user.
C14_MalformedFallsBack ==
  [][/\ \A recipesData \in SeedRecipeSets, reviewsData \in SeedReviewSets :
          (loadData(recipesData, reviewsData) /\ ~Parses(recipeStorage)) =>
             /\ recipes' = RecomputeAggregates(processRecipes(recipesData),
                                               reviewsData)
             /\ recipeStorage' = Item(processRecipes(recipesData))
     /\ (Render /\ LoadRuns /\ ~Parses(storage.folders)) =>
          /\ Len(folders') = 2
          /\ AllOwnedBy(folders', user)
          /\ folders'[1].name = "Favorites"
          /\ folders'[2].name = "Try Later"
    ]_vars

=============================================================================
